---- MODULE Spec2Model ----
(***************************************************************************)
(* MongoDBWrapper (src/DataStore.ts): a wrapper object around a MongoDB    *)
(* client.  The driver (MongoClient, ClientSession, Collection) is an      *)
(* external collaborator: each of its calls is modelled by the outcomes    *)
(* it can produce (it returns, or it throws / its promise rejects).        *)
(*                                                                         *)
(* Spec       the instance methods: connect, disconnect, the CRUD methods  *)
(*            and executeInTransaction, one action per driver call that    *)
(*            the method awaits.  The caller is one task: it calls a       *)
(*            method before a transaction, or from inside func.           *)
(* SpecQuery  the static query builder functions, on a heap of option      *)
(*            records, so that object identity and mutation are visible.   *)
(***************************************************************************)
EXTENDS Integers, Sequences, FiniteSets, TLC

(***************************************************************************)
(* Bounds.                                                                 *)
(***************************************************************************)
MaxCalls == 1  \* driver connect()/close() calls counted before the caller stops
MaxDocs == 2   \* longest docs array handed to insertMany
MaxObjs == 3   \* option records alive on the heap of SpecQuery

(***************************************************************************)
(* JavaScript values: tagged records, so that `||` can test truthiness.    *)
(* An object is a function from its own keys to values.                    *)
(***************************************************************************)
Undefined == [type |-> "undefined"]

Num(n) == [type |-> "number", val |-> n]

Str(s) == [type |-> "string", val |-> s]

Obj(o) == [type |-> "object", val |-> o]

EmptyObject == [k \in {} |-> Undefined]

\* ToBoolean, as applied by `||`
Truthy(v) ==
  CASE v.type = "undefined" -> FALSE
    [] v.type = "number" -> v.val # 0
    [] v.type = "string" -> v.val # ""
    [] v.type = "boolean" -> v.val
    [] v.type = "null" -> FALSE
    [] OTHER -> TRUE

\* a || b
OrElse(a, b) == IF Truthy(a) THEN a ELSE b

\* o.k : a key the object does not have reads as undefined
Get(o, k) == IF k \in DOMAIN o THEN o[k] ELSE Undefined

\* { ...o, k: v } : a new object with the own keys of o, k added or replaced
Spread(o, k, v) == [x \in (DOMAIN o) \cup {k} |-> IF x = k THEN v ELSE o[x]]

None == [kind |-> "none"]

Returned(v) == [kind |-> "return", value |-> v]

Threw(e) == [kind |-> "throw", error |-> e]

VARIABLES
  client,      \* the MongoClient: how often connect() and close() were invoked
  lastOp,      \* the wrapper operation that took the last step
  last,        \* the caller's latest call of a wrapper method, and what it did
  pc,          \* position of the executeInTransaction invocation
  hasSession,  \* startSession() returned a session to that invocation
  trace,       \* calls on the session (and func), with their outcomes, in order
  result,      \* `result`, line 48
  error,       \* `error`, the catch binding of line 51
  raised,      \* errors raised during the invocation, in order
  completion,  \* how the async function is about to complete
  outcome,     \* what the caller of executeInTransaction observed
  heap,        \* SpecQuery: the option records, by reference
  build        \* SpecQuery: the last builder call

vars == <<client, lastOp, last, pc, hasSession, trace, result, error, raised,
          completion, outcome, heap, build>>

txnVars == <<pc, hasSession, trace, result, error, raised, completion, outcome>>

queryVars == <<heap, build>>

(***************************************************************************)
(* Construction.                                                           *)
(***************************************************************************)
Configs == { [url |-> "mongodb://a", dbName |-> "db1"],
             [url |-> "mongodb://b", dbName |-> "db2"] }

\* variant: the constructor opens the connection itself
Constructor_Connects(config) ==
  [url |-> config.url, dbName |-> config.dbName, connectCalls |-> 1, closeCalls |-> 0]

\* new MongoClient(url); client.db(dbName): neither opens a connection
Constructor(config) ==
  [url |-> config.url, dbName |-> config.dbName, connectCalls |-> 0, closeCalls |-> 0]

Init ==
  /\ \E config \in Configs : client = Constructor(config)
  /\ lastOp = "constructor"
  /\ last = [op |-> "constructor"]
  /\ pc = "idle"
  /\ hasSession = FALSE
  /\ trace = <<>>
  /\ result = Undefined
  /\ error = "none"
  /\ raised = <<>>
  /\ completion = None
  /\ outcome = None
  /\ heap = <<>>
  /\ build = None

(***************************************************************************)
(* connect / disconnect                                                    *)
(***************************************************************************)
Connect ==
  /\ pc \in {"idle", "awaitFunc"}
  /\ client.connectCalls < MaxCalls
  /\ client' = [client EXCEPT !.connectCalls = @ + 1]
  /\ \E ok \in BOOLEAN :
       last' = [op |-> "connect",
                logged |-> ~ok,
                outcome |-> IF ok THEN Returned(Undefined) ELSE Threw("E_connect")]
  /\ lastOp' = "connect"
  /\ UNCHANGED <<txnVars, queryVars>>

Disconnect ==
  /\ pc \in {"idle", "awaitFunc"}
  /\ client.closeCalls < MaxCalls
  /\ client' = [client EXCEPT !.closeCalls = @ + 1]
  /\ \E ok \in BOOLEAN :
       last' = [op |-> "disconnect",
                logged |-> ~ok,
                outcome |-> IF ok THEN Returned(Undefined) ELSE Threw("E_close")]
  /\ lastOp' = "disconnect"
  /\ UNCHANGED <<txnVars, queryVars>>

(***************************************************************************)
(* executeInTransaction(func)                                              *)
(***************************************************************************)
FuncValues == { Str("v1"), Undefined }

\* line 45: const session = this.client.startSession();
\* outside the try: if it throws, the async function rejects at once
ExecuteInTransaction ==
  /\ pc \in {"idle", "done"}
  /\ \E ok \in BOOLEAN :
       /\ hasSession' = ok
       /\ pc' = IF ok THEN "startTransaction" ELSE "settle"
       /\ raised' = IF ok THEN <<>> ELSE <<"E_startSession">>
       /\ completion' = IF ok THEN None ELSE Threw("E_startSession")
  /\ trace' = <<>>
  /\ result' = Undefined
  /\ error' = "none"
  /\ outcome' = None
  /\ last' = [op |-> "executeInTransaction"]
  /\ lastOp' = "executeInTransaction"
  /\ UNCHANGED <<client, queryVars>>

\* line 47: session.startTransaction();  a throw is caught at line 51
StartTransaction ==
  /\ pc = "startTransaction"
  /\ \/ /\ trace' = trace \o <<"startTransaction", "startTransaction:ok">>
        /\ pc' = "func"
        /\ UNCHANGED <<error, raised>>
     \/ /\ trace' = trace \o <<"startTransaction", "startTransaction:throw">>
        /\ pc' = "abort"
        /\ error' = "E_startTransaction"
        /\ raised' = Append(raised, "E_startTransaction")
  /\ lastOp' = "executeInTransaction"
  /\ UNCHANGED <<client, last, hasSession, result, completion, outcome, queryVars>>

\* variant: func(session) is called but its promise is not awaited
CallFunc_NotAwaited ==
  /\ pc = "func"
  /\ trace' = Append(trace, "func")
  /\ pc' = "commit"
  /\ lastOp' = "executeInTransaction"
  /\ UNCHANGED <<client, last, hasSession, result, error, raised, completion,
                 outcome, queryVars>>

\* line 48: func(session) is called; the wrapper then awaits its promise
CallFunc ==
  /\ pc = "func"
  /\ trace' = Append(trace, "func")
  /\ pc' = "awaitFunc"
  /\ lastOp' = "executeInTransaction"
  /\ UNCHANGED <<client, last, hasSession, result, error, raised, completion,
                 outcome, queryVars>>

\* line 48: const result = await func(session);  a rejection is caught at line 51
AwaitFunc ==
  /\ pc = "awaitFunc"
  /\ \/ \E v \in FuncValues :
          /\ result' = v
          /\ trace' = Append(trace, "func:return")
          /\ pc' = "commit"
          /\ UNCHANGED <<error, raised>>
     \/ /\ trace' = Append(trace, "func:throw")
        /\ pc' = "abort"
        /\ error' = "E_func"
        /\ raised' = Append(raised, "E_func")
        /\ UNCHANGED result
  /\ lastOp' = "executeInTransaction"
  /\ UNCHANGED <<client, last, hasSession, completion, outcome, queryVars>>

\* variant: the commit is awaited but `return result` is missing
CommitTransaction_NoReturn ==
  /\ pc = "commit"
  /\ \/ /\ trace' = trace \o <<"commitTransaction", "commitTransaction:ok">>
        /\ completion' = Returned(Undefined)
        /\ pc' = "finally"
        /\ UNCHANGED <<error, raised>>
     \/ /\ trace' = trace \o <<"commitTransaction", "commitTransaction:throw">>
        /\ pc' = "abort"
        /\ error' = "E_commit"
        /\ raised' = Append(raised, "E_commit")
        /\ UNCHANGED completion
  /\ lastOp' = "executeInTransaction"
  /\ UNCHANGED <<client, last, hasSession, result, outcome, queryVars>>

\* lines 49-50: await session.commitTransaction(); return result;
CommitTransaction ==
  /\ pc = "commit"
  /\ \/ /\ trace' = trace \o <<"commitTransaction", "commitTransaction:ok">>
        /\ completion' = Returned(result)
        /\ pc' = "finally"
        /\ UNCHANGED <<error, raised>>
     \/ /\ trace' = trace \o <<"commitTransaction", "commitTransaction:throw">>
        /\ pc' = "abort"
        /\ error' = "E_commit"
        /\ raised' = Append(raised, "E_commit")
        /\ UNCHANGED completion
  /\ lastOp' = "executeInTransaction"
  /\ UNCHANGED <<client, last, hasSession, result, outcome, queryVars>>

\* variant: the catch block rethrows without aborting
AbortTransaction_Rethrow ==
  /\ pc = "abort"
  /\ completion' = Threw(error)
  /\ pc' = "finally"
  /\ lastOp' = "executeInTransaction"
  /\ UNCHANGED <<client, last, hasSession, trace, result, error, raised, outcome,
                 queryVars>>

\* lines 51-53: catch (error) { await session.abortTransaction(); throw error; }
\* a rejection of abortTransaction leaves the catch block in place of `throw error`
AbortTransaction ==
  /\ pc = "abort"
  /\ \/ /\ trace' = trace \o <<"abortTransaction", "abortTransaction:ok">>
        /\ completion' = Threw(error)
        /\ UNCHANGED raised
     \/ /\ trace' = trace \o <<"abortTransaction", "abortTransaction:throw">>
        /\ completion' = Threw("E_abort")
        /\ raised' = Append(raised, "E_abort")
  /\ pc' = "finally"
  /\ lastOp' = "executeInTransaction"
  /\ UNCHANGED <<client, last, hasSession, result, error, outcome, queryVars>>

\* variant: endSession() sits at the end of the try block, not in a finally
EndSession_OnSuccessOnly ==
  /\ pc = "finally"
  /\ trace' = IF completion.kind = "return" THEN Append(trace, "endSession") ELSE trace
  /\ pc' = "settle"
  /\ lastOp' = "executeInTransaction"
  /\ UNCHANGED <<client, last, hasSession, result, error, raised, completion,
                 outcome, queryVars>>

\* lines 54-56: finally { session.endSession(); }  the promise endSession()
\* returns is not awaited, so its outcome does not reach the caller
EndSession ==
  /\ pc = "finally"
  /\ trace' = Append(trace, "endSession")
  /\ pc' = "settle"
  /\ lastOp' = "executeInTransaction"
  /\ UNCHANGED <<client, last, hasSession, result, error, raised, completion,
                 outcome, queryVars>>

\* the promise of executeInTransaction settles: the caller sees the value or the error
Settle ==
  /\ pc = "settle"
  /\ outcome' = completion
  /\ trace' = Append(trace, "settle")
  /\ pc' = "done"
  /\ lastOp' = "executeInTransaction"
  /\ UNCHANGED <<client, last, hasSession, result, error, raised, completion,
                 queryVars>>

(***************************************************************************)
(* insertOne / insertMany                                                  *)
(***************************************************************************)
Bool(b) == [type |-> "boolean", val |-> b]

DocInputs == { EmptyObject,
               ("name" :> Str("a")),
               ("name" :> Str("b")) @@ ("_id" :> Str("id7")) }

\* sequences of at most n documents
RECURSIVE DocSeqs(_)
DocSeqs(n) ==
  IF n = 0 THEN { <<>> }
  ELSE DocSeqs(n - 1) \cup
       { Append(s, d) : s \in { t \in DocSeqs(n - 1) : Len(t) = n - 1 }, d \in DocInputs }

GenBases == {100, 200}

\* the identifier the driver reports for a document: the document's own _id,
\* or one it generates
DriverInsertedId(doc, generated) ==
  IF "_id" \in DOMAIN doc THEN doc["_id"] ELSE generated

\* the driver may write the identifier into the caller's document
DriverDocAfter(doc, id, mutates) == IF mutates THEN Spread(doc, "_id", id) ELSE doc

\* variant: doc._id = result.insertedId; return doc;
InsertOneReturn_InPlace(doc, insertedId) ==
  [ret |-> Spread(doc, "_id", insertedId), doc |-> Spread(doc, "_id", insertedId)]

\* line 62: return { ...doc, _id: result.insertedId };  ret is the value returned,
\* doc the caller's document as the statement leaves it
InsertOneReturn(doc, insertedId) ==
  [ret |-> Spread(doc, "_id", insertedId), doc |-> doc]

\* lines 59-63
InsertOne ==
  /\ pc \in {"idle", "awaitFunc"}
  /\ \E doc \in DocInputs, gen \in GenBases, mutates \in BOOLEAN, ok \in BOOLEAN :
       LET id == DriverInsertedId(doc, Num(gen))
           driverDoc == DriverDocAfter(doc, id, mutates)
           r == InsertOneReturn(driverDoc, id)
       IN  last' = IF ok
                   THEN [op |-> "insertOne", doc |-> doc, driverDoc |-> driverDoc,
                         insertedId |-> id, docAtReturn |-> r.doc,
                         outcome |-> Returned(r.ret)]
                   ELSE [op |-> "insertOne", doc |-> doc, outcome |-> Threw("E_driver")]
  /\ lastOp' = "insertOne"
  /\ UNCHANGED <<client, txnVars, queryVars>>

\* variant: every document gets the identifier of the first one
InsertManyReturn_FirstId(docs, insertedIds) ==
  [i \in 1..Len(docs) |-> Spread(docs[i], "_id", insertedIds[0])]

\* line 68: docs.map((doc, index) => ({ ...doc, _id: result.insertedIds[index] }))
\* docs is a sequence (from 1), insertedIds is keyed by the array index (from 0)
InsertManyReturn(docs, insertedIds) ==
  [i \in 1..Len(docs) |-> Spread(docs[i], "_id", insertedIds[i - 1])]

\* lines 65-69
InsertMany ==
  /\ pc \in {"idle", "awaitFunc"}
  /\ \E docs \in DocSeqs(MaxDocs), gen \in GenBases, mutates \in BOOLEAN, ok \in BOOLEAN :
       LET insertedIds == [index \in 0..(Len(docs) - 1) |->
                             DriverInsertedId(docs[index + 1], Num(gen + index))]
           driverDocs == [i \in 1..Len(docs) |->
                            DriverDocAfter(docs[i], insertedIds[i - 1], mutates)]
       IN  last' = IF ok
                   THEN [op |-> "insertMany", docs |-> docs, insertedIds |-> insertedIds,
                         outcome |-> Returned(InsertManyReturn(driverDocs, insertedIds))]
                   ELSE [op |-> "insertMany", docs |-> docs, outcome |-> Threw("E_driver")]
  /\ lastOp' = "insertMany"
  /\ UNCHANGED <<client, txnVars, queryVars>>

(***************************************************************************)
(* update / find / delete / count                                          *)
(***************************************************************************)
ActiveFilter == Obj("active" :> Bool(TRUE))

MatchAll == Obj(EmptyObject)

QueryInputs ==
  { EmptyObject,
    ("filter" :> ActiveFilter),
    ("filter" :> MatchAll),
    ("filter" :> Undefined) @@ ("limit" :> Num(2)),
    ("skip" :> Num(0)) @@ ("sort" :> Obj("name" :> Num(1))),
    ("filter" :> ActiveFilter) @@ ("skip" :> Num(1)) @@ ("limit" :> Num(2))
      @@ ("sort" :> Obj("name" :> Num(1))) @@ ("projection" :> Obj("name" :> Num(1))) }

Updates == { Obj("$set" :> Obj("active" :> Bool(FALSE))) }

\* variant: query.filter is passed as it is
FilterArg_NoDefault(query) == Get(query, "filter")

\* query.filter || {}
FilterArg(query) == OrElse(Get(query, "filter"), Obj(EmptyObject))

\* a driver call that resolves with one of `values`, or rejects
DriverOutcomes(values) == { Returned(v) : v \in values } \cup { Threw("E_driver") }

\* the wrapper's promise: the driver's value, or undefined for Promise<void>
Forward(o, void) == IF o.kind = "return" /\ void THEN Returned(Undefined) ELSE o

\* lines 71-74
UpdateOne ==
  /\ pc \in {"idle", "awaitFunc"}
  /\ \E query \in QueryInputs, update \in Updates, o \in DriverOutcomes({Str("UpdateResult")}) :
       last' = [op |-> "updateOne", query |-> query,
                driver |-> [method |-> "updateOne", filter |-> FilterArg(query),
                            update |-> update],
                outcome |-> Forward(o, TRUE)]
  /\ lastOp' = "updateOne"
  /\ UNCHANGED <<client, txnVars, queryVars>>

\* lines 76-79
UpdateMany ==
  /\ pc \in {"idle", "awaitFunc"}
  /\ \E query \in QueryInputs, update \in Updates, o \in DriverOutcomes({Str("UpdateResult")}) :
       last' = [op |-> "updateMany", query |-> query,
                driver |-> [method |-> "updateMany", filter |-> FilterArg(query),
                            update |-> update],
                outcome |-> Forward(o, TRUE)]
  /\ lastOp' = "updateMany"
  /\ UNCHANGED <<client, txnVars, queryVars>>

\* lines 81-89
FindOne ==
  /\ pc \in {"idle", "awaitFunc"}
  /\ \E query \in QueryInputs,
        o \in DriverOutcomes({[type |-> "null"], Obj("name" :> Str("a"))}) :
       last' = [op |-> "findOne", query |-> query,
                driver |-> [method |-> "findOne", filter |-> FilterArg(query),
                            options |-> [skip |-> Get(query, "skip"),
                                         sort |-> Get(query, "sort"),
                                         projection |-> Get(query, "projection")]],
                outcome |-> Forward(o, FALSE)]
  /\ lastOp' = "findOne"
  /\ UNCHANGED <<client, txnVars, queryVars>>

\* lines 91-100
Find ==
  /\ pc \in {"idle", "awaitFunc"}
  /\ \E query \in QueryInputs,
        o \in DriverOutcomes({Obj(<<>>), Obj(<<Obj("name" :> Str("a"))>>)}) :
       last' = [op |-> "find", query |-> query,
                driver |-> [method |-> "find", filter |-> FilterArg(query),
                            options |-> [skip |-> Get(query, "skip"),
                                         limit |-> Get(query, "limit"),
                                         sort |-> Get(query, "sort"),
                                         projection |-> Get(query, "projection")]],
                outcome |-> Forward(o, FALSE)]
  /\ lastOp' = "find"
  /\ UNCHANGED <<client, txnVars, queryVars>>

\* lines 102-105
DeleteOne ==
  /\ pc \in {"idle", "awaitFunc"}
  /\ \E query \in QueryInputs, o \in DriverOutcomes({Str("DeleteResult")}) :
       last' = [op |-> "deleteOne", query |-> query,
                driver |-> [method |-> "deleteOne", filter |-> FilterArg(query)],
                outcome |-> Forward(o, TRUE)]
  /\ lastOp' = "deleteOne"
  /\ UNCHANGED <<client, txnVars, queryVars>>

\* lines 107-110
DeleteMany ==
  /\ pc \in {"idle", "awaitFunc"}
  /\ \E query \in QueryInputs, o \in DriverOutcomes({Str("DeleteResult")}) :
       last' = [op |-> "deleteMany", query |-> query,
                driver |-> [method |-> "deleteMany", filter |-> FilterArg(query)],
                outcome |-> Forward(o, TRUE)]
  /\ lastOp' = "deleteMany"
  /\ UNCHANGED <<client, txnVars, queryVars>>

\* lines 112-115
Count ==
  /\ pc \in {"idle", "awaitFunc"}
  /\ \E query \in QueryInputs, o \in DriverOutcomes({Num(0), Num(3)}) :
       last' = [op |-> "count", query |-> query,
                driver |-> [method |-> "countDocuments", filter |-> FilterArg(query)],
                outcome |-> Forward(o, FALSE)]
  /\ lastOp' = "count"
  /\ UNCHANGED <<client, txnVars, queryVars>>

Next ==
  \/ Connect
  \/ Disconnect
  \/ InsertOne
  \/ InsertMany
  \/ UpdateOne
  \/ UpdateMany
  \/ FindOne
  \/ Find
  \/ DeleteOne
  \/ DeleteMany
  \/ Count
  \/ ExecuteInTransaction
  \/ StartTransaction
  \/ CallFunc
  \/ AwaitFunc
  \/ CommitTransaction
  \/ AbortTransaction
  \/ EndSession
  \/ Settle

Spec == Init /\ [][Next]_vars

(***************************************************************************)
(* Static query builder functions, lines 117-140.  heap[i] is the option   *)
(* record with reference i; the caller holds references.                   *)
(***************************************************************************)
FilterValues == { ActiveFilter, MatchAll }

SkipValues == { Num(0), Num(1) }

LimitValues == { Num(2), Num(5) }

SortValues == { Obj("name" :> Num(1)) }

ProjectionValues == { Obj("name" :> Num(1)) }

\* lines 118-120: return options;  the argument is a record the caller just
\* wrote (or the default {}), or a record it already holds
CreateQuery ==
  /\ \/ /\ Len(heap) < MaxObjs
        /\ \E options \in QueryInputs :
             /\ heap' = Append(heap, options)
             /\ build' = [fn |-> "createQuery", query |-> Len(heap) + 1,
                          heapBefore |-> heap', ret |-> Len(heap) + 1]
     \/ /\ \E options \in 1..Len(heap) :
             build' = [fn |-> "createQuery", query |-> options,
                       heapBefore |-> heap, ret |-> options]
        /\ UNCHANGED heap
  /\ UNCHANGED <<client, lastOp, last, txnVars>>

\* lines 122-124: return { ...query, filter };
WithFilter(query, filter) ==
  /\ Len(heap) < MaxObjs
  /\ heap' = Append(heap, Spread(heap[query], "filter", filter))
  /\ build' = [fn |-> "withFilter", query |-> query, field |-> "filter",
               value |-> filter, heapBefore |-> heap, ret |-> Len(heap) + 1]
  /\ UNCHANGED <<client, lastOp, last, txnVars>>

\* lines 126-128: return { ...query, skip };
WithSkip(query, skip) ==
  /\ Len(heap) < MaxObjs
  /\ heap' = Append(heap, Spread(heap[query], "skip", skip))
  /\ build' = [fn |-> "withSkip", query |-> query, field |-> "skip",
               value |-> skip, heapBefore |-> heap, ret |-> Len(heap) + 1]
  /\ UNCHANGED <<client, lastOp, last, txnVars>>

\* variant: query.limit = limit; return query;
WithLimit_InPlace(query, limit) ==
  /\ heap' = [heap EXCEPT ![query] = Spread(heap[query], "limit", limit)]
  /\ build' = [fn |-> "withLimit", query |-> query, field |-> "limit",
               value |-> limit, heapBefore |-> heap, ret |-> query]
  /\ UNCHANGED <<client, lastOp, last, txnVars>>

\* lines 130-132: return { ...query, limit };
WithLimit(query, limit) ==
  /\ Len(heap) < MaxObjs
  /\ heap' = Append(heap, Spread(heap[query], "limit", limit))
  /\ build' = [fn |-> "withLimit", query |-> query, field |-> "limit",
               value |-> limit, heapBefore |-> heap, ret |-> Len(heap) + 1]
  /\ UNCHANGED <<client, lastOp, last, txnVars>>

\* lines 134-136: return { ...query, sort };
WithSort(query, sort) ==
  /\ Len(heap) < MaxObjs
  /\ heap' = Append(heap, Spread(heap[query], "sort", sort))
  /\ build' = [fn |-> "withSort", query |-> query, field |-> "sort",
               value |-> sort, heapBefore |-> heap, ret |-> Len(heap) + 1]
  /\ UNCHANGED <<client, lastOp, last, txnVars>>

\* lines 138-140: return { ...query, projection };
WithProjection(query, projection) ==
  /\ Len(heap) < MaxObjs
  /\ heap' = Append(heap, Spread(heap[query], "projection", projection))
  /\ build' = [fn |-> "withProjection", query |-> query, field |-> "projection",
               value |-> projection, heapBefore |-> heap, ret |-> Len(heap) + 1]
  /\ UNCHANGED <<client, lastOp, last, txnVars>>

NextQuery ==
  \/ CreateQuery
  \/ \E query \in 1..Len(heap), filter \in FilterValues : WithFilter(query, filter)
  \/ \E query \in 1..Len(heap), skip \in SkipValues : WithSkip(query, skip)
  \/ \E query \in 1..Len(heap), limit \in LimitValues : WithLimit(query, limit)
  \/ \E query \in 1..Len(heap), sort \in SortValues : WithSort(query, sort)
  \/ \E query \in 1..Len(heap), projection \in ProjectionValues :
       WithProjection(query, projection)

SpecQuery == Init /\ [][NextQuery]_vars

(***************************************************************************)
(* Properties.                                                             *)
(***************************************************************************)
Has(e) == \E i \in 1..Len(trace) : trace[i] = e

Times(e) == Cardinality({ i \in 1..Len(trace) : trace[i] = e })

Before(a, b) == \E i, j \in 1..Len(trace) : i < j /\ trace[i] = a /\ trace[j] = b

SessionCalls == { "startTransaction", "commitTransaction", "abortTransaction", "endSession" }

\* C1: if func throws, abortTransaction is invoked on the session,
\* commitTransaction is never invoked, and the call fails towards the caller.
C1_FuncThrowAborts ==
  Has("func:throw") =>
    /\ ~Has("commitTransaction")
    /\ pc \in {"finally", "settle", "done"} => Times("abortTransaction") = 1
    /\ pc = "done" => outcome.kind = "throw"

C1_Witness == pc = "done" /\ Has("func:throw") /\ Has("abortTransaction:ok")

\* C2: an invocation that obtained a session invokes endSession on it exactly
\* once on every exit path (success, func throws, commit fails, abort fails).
C2_EndSessionOnce ==
  /\ Times("endSession") <= 1
  /\ (hasSession /\ pc \in {"settle", "done"}) => Times("endSession") = 1

C2_Witness == pc = "done" /\ Has("abortTransaction:throw") /\ Times("endSession") = 1

\* C3 as stated: if func succeeds, the transaction is committed and the call
\* returns the value func returned.
C3_AsStated ==
  (pc = "done" /\ Has("func:return")) =>
    /\ Has("commitTransaction:ok")
    /\ outcome = Returned(result)

\* C3 amended: if func succeeds, commitTransaction is invoked; if that commit
\* succeeds, the call returns the value func returned, unchanged; if it fails,
\* the call fails.
C3_CommitThenPassThrough ==
  (pc = "done" /\ Has("func:return")) =>
    /\ Times("commitTransaction") = 1
    /\ Has("commitTransaction:ok") => outcome = Returned(result)
    /\ Has("commitTransaction:throw") => outcome.kind = "throw"

C3_Witness ==
  pc = "done" /\ Has("commitTransaction:ok") /\ outcome = Returned(Str("v1"))

\* C4: whenever the call fails, the caller receives the error that was raised
\* first (by startTransaction, func or commitTransaction), also when
\* abortTransaction fails.
C4_OriginalErrorPreserved ==
  (pc = "done" /\ outcome.kind = "throw") => outcome.error = raised[1]

\* C5: a with* builder leaves every existing record as it was and returns a
\* record that did not exist before, equal to its argument on every field but
\* the targeted one, which has the new value.
C5_BuildersDoNotMutate ==
  (build # None /\ build.fn # "createQuery") =>
    LET old == build.heapBefore[build.query]
        new == heap[build.ret]
    IN  /\ \A i \in 1..Len(build.heapBefore) : heap[i] = build.heapBefore[i]
        /\ build.ret \notin 1..Len(build.heapBefore)
        /\ DOMAIN new = (DOMAIN old) \cup {build.field}
        /\ new[build.field] = build.value
        /\ \A k \in (DOMAIN old) \ {build.field} : new[k] = old[k]

\* withLimit applied to the result of an earlier withSkip
C5_Witness ==
  /\ build # None
  /\ build.fn = "withLimit"
  /\ build.query = 2
  /\ build.ret = 3
  /\ heap[1] = EmptyObject
  /\ heap[2] = ("skip" :> Num(1))
  /\ heap[3] = ("skip" :> Num(1)) @@ ("limit" :> Num(5))

\* C6: a successful insertMany returns as many records as docs, in the same
\* order; record i has every field of docs[i] and the identifier the driver
\* assigned for position i.
C6_InsertManyPositional ==
  (last.op = "insertMany" /\ last.outcome.kind = "return") =>
    LET ret == last.outcome.value
    IN  /\ Len(ret) = Len(last.docs)
        /\ \A i \in 1..Len(last.docs) :
             /\ \A k \in DOMAIN last.docs[i] : k \in DOMAIN ret[i] /\ ret[i][k] = last.docs[i][k]
             /\ "_id" \in DOMAIN ret[i]
             /\ ret[i]["_id"] = last.insertedIds[i - 1]

C6_Witness ==
  /\ last.op = "insertMany"
  /\ last.outcome.kind = "return"
  /\ Len(last.docs) = 2
  /\ last.docs[1] # last.docs[2]
  /\ last.insertedIds[0] # last.insertedIds[1]

\* C7: a successful insertOne returns a record with every field of doc and its
\* value, plus _id equal to the identifier the driver assigned; the wrapper
\* does not modify doc.
C7_InsertOneAttachesId ==
  (last.op = "insertOne" /\ last.outcome.kind = "return") =>
    LET ret == last.outcome.value
    IN  /\ \A k \in DOMAIN last.doc : k \in DOMAIN ret /\ ret[k] = last.doc[k]
        /\ "_id" \in DOMAIN ret
        /\ ret["_id"] = last.insertedId
        /\ last.docAtReturn = last.driverDoc

C7_Witness ==
  /\ last.op = "insertOne"
  /\ last.outcome.kind = "return"
  /\ "name" \in DOMAIN last.doc
  /\ "_id" \notin DOMAIN last.docAtReturn

FilterOps ==
  { "updateOne", "updateMany", "deleteOne", "deleteMany", "count", "find", "findOne" }

C9_ConnectOnlyOnRequest ==
  /\ lastOp = "constructor" => (client.connectCalls = 0 /\ client.closeCalls = 0)
  /\ [][ /\ client'.connectCalls # client.connectCalls => lastOp' = "connect"
         /\ client'.closeCalls # client.closeCalls => lastOp' = "disconnect" ]_vars

C9_Witness ==
  /\ pc = "done"
  /\ last.op = "insertMany"
  /\ client.connectCalls = 0
  /\ client.closeCalls = 0

\* C10: startTransaction precedes func; commitTransaction follows a normal
\* return of func; abortTransaction follows a failure of startTransaction, func
\* or commitTransaction and never a successful commit; endSession follows every
\* other call on the session and precedes the settling of the call.
C10_SessionCallOrder ==
  /\ Has("func") => Before("startTransaction:ok", "func")
  /\ Has("commitTransaction") => Before("func:return", "commitTransaction")
  /\ Has("abortTransaction") =>
       /\ \E f \in {"startTransaction:throw", "func:throw", "commitTransaction:throw"} :
            Before(f, "abortTransaction")
       /\ ~Has("commitTransaction:ok")
  /\ \A c \in SessionCalls \cup {"func"} : ~Before("endSession", c)
  /\ (hasSession /\ Has("settle")) => Before("endSession", "settle")

C10_Witness ==
  /\ pc = "done"
  /\ Before("commitTransaction:throw", "abortTransaction")
  /\ Before("abortTransaction", "endSession")

====
